---- MODULE Spec2Model ----
(***************************************************************************)
(* State-machine model of the Lambda entry point MyKintone/src/index.ts:   *)
(* the envelope detection of `handler`, the tool-name normalisation, the   *)
(* zod parameter schemas, the KintoneTools calls to the record store and   *)
(* the envelope-specific rendering of the response.                        *)
(*                                                                         *)
(* JavaScript values are tagged records [t |-> <typeof>, v |-> ...].       *)
(* A string is a sequence of tokens: the literals the code searches for    *)
(* ("MyKintoneTarget", "___", "kintone-") are one token each, so that      *)
(* startsWith / includes / indexOf / replace are computed on the string    *)
(* and not assumed.  A string holding JSON text carries the value the      *)
(* text denotes in the field `json`; any other string is not valid JSON.   *)
(***************************************************************************)
EXTENDS Integers, Sequences, FiniteSets, TLC

\* Largest size of the input of one invocation: the own keys of the request
\* (the clientContext counted as one) plus the environment variables missing.
MaxKeys == 3
\* The number of words between the target prefix and the identifier of a
\* tool name.
MaxMiddle == 2

(***************************************************************************)
(* JavaScript values                                                       *)
(***************************************************************************)
Undef == [t |-> "undefined"]
Null == [t |-> "null"]
Str(toks) == [t |-> "string", v |-> toks]
Num(n) == [t |-> "number", v |-> n]
Bool(b) == [t |-> "boolean", v |-> b]
Obj(f) == [t |-> "object", v |-> f]
Arr(s) == [t |-> "array", v |-> s]
EmptyObj == Obj(<<>>)

\* o.k for an object o: undefined when the key is absent (or o has no keys).
Get(o, k) == IF o.t = "object" /\ k \in DOMAIN o.v THEN o.v[k] ELSE Undef

\* o.k throws a TypeError exactly when o is undefined or null.
CanRead(o) == o.t \notin {"undefined", "null"}

\* ToBoolean(x)
Truthy(x) ==
  CASE x.t = "undefined" -> FALSE
    [] x.t = "null" -> FALSE
    [] x.t = "boolean" -> x.v
    [] x.t = "number" -> x.v # 0
    [] x.t = "string" -> x.v # <<>>
    [] OTHER -> TRUE

\* a || b
OrElse(a, b) == IF Truthy(a) THEN a ELSE b

(***************************************************************************)
(* Strings                                                                 *)
(***************************************************************************)
Target == "MyKintoneTarget"
Delim == "___"
Family == "kintone-"

IsPrefix(p, s) == Len(p) <= Len(s) /\ SubSeq(s, 1, Len(p)) = p

\* x.startsWith / x.includes / x.replace is called on a value that has no
\* such method: a TypeError.  (x && x.startsWith(...) calls it when x is truthy.)
NotAString(x) == Truthy(x) /\ x.t # "string"

\* s.startsWith(p), s a string value
startsWith(s, p) == s.t = "string" /\ IsPrefix(p, s.v)

\* s.includes(p)
includes(s, p) ==
  s.t = "string" /\ \E i \in 1..Len(s.v) : IsPrefix(p, SubSeq(s.v, i, Len(s.v)))

\* s.indexOf(p), 1-based; 0 when absent
indexOf(s, p) ==
  IF includes(s, p)
  THEN CHOOSE i \in 1..Len(s.v) :
         /\ IsPrefix(p, SubSeq(s.v, i, Len(s.v)))
         /\ \A j \in 1..(i - 1) : ~IsPrefix(p, SubSeq(s.v, j, Len(s.v)))
  ELSE 0

\* s.substring(i) with i the 1-based position of the first token kept
substring(s, i) == Str(SubSeq(s.v, i, Len(s.v)))

\* s.replace(p, ''): the first occurrence of p is removed, if any
replaceFirst(s, p) ==
  IF includes(s, p)
  THEN Str(SubSeq(s.v, 1, indexOf(s, p) - 1)
           \o SubSeq(s.v, indexOf(s, p) + Len(p), Len(s.v)))
  ELSE s

\* JSON.stringify(x): the text that denotes x
JSONstringify(x) == [t |-> "string", v |-> <<"{json}">>, json |-> x]

\* JSON.parse(s) succeeds exactly on JSON text
IsJSON(s) == s.t = "string" /\ "json" \in DOMAIN s
JSONparse(s) == s.json

(***************************************************************************)
(* Requests.  Every field is absent or holds a value of the type the wire  *)
(* shape gives it; empty strings, empty objects and empty sequences        *)
(* included.                                                               *)
(***************************************************************************)
\* <target>___kintone-<operation>, the tool-name wire format
Wire(op) == Str(<<Target, Delim, Family, op>>)
OtherWire(op) == Str(<<"OtherTarget", Delim, Family, op>>)
Plain(op) == Str(<<op>>)
EmptyStr == Str(<<>>)
Garbage == Str(<<"not json">>)

\* Parameter objects: valid for every schema; empty; wrongly typed.
OneRecord == Obj("Company" :> Obj("value" :> Str(<<"ACME">>)))
FullParams ==
  Obj(("id" :> Str(<<"1">>)) @@ ("app" :> Str(<<"1">>))
      @@ ("query" :> Str(<<"limit 5">>)) @@ ("records" :> Arr(<<OneRecord>>)))
BadParams ==
  Obj(("id" :> Num(7)) @@ ("app" :> Num(7)) @@ ("records" :> Str(<<"x">>)))

Call(toolv) == Obj("tool" :> toolv)
CallWith(toolv, p) == Obj(("tool" :> toolv) @@ ("params" :> p))
Rpc(namev) == Obj("name" :> namev)
RpcWith(namev, a) == Obj(("name" :> namev) @@ ("arguments" :> a))
QueueRecord(x) == Obj("body" :> JSONstringify(x))

ClientContext(toolv) == Obj("custom" :> Obj("bedrockAgentCoreToolName" :> toolv))

Fields ==
  {"clientContext", "method", "params", "id", "operationId", "context", "name",
   "toolName", "tool_name", "arguments", "Records", "httpMethod",
   "requestContext", "body", "source", "detail", "tool", "app"}

FieldDom(f) ==
  CASE f = "clientContext" ->
         {ClientContext(Wire("get-apps")), ClientContext(Wire("get-records")),
          ClientContext(Wire("update-records")),
          ClientContext(OtherWire("get-form-fields")),
          Obj("Custom" :> Obj("bedrockAgentCoreToolName" :> Wire("get-apps"))),
          Obj("custom" :> EmptyObj)}
    [] f = "method" -> {Plain("tools/call"), Plain("initialize")}
    [] f = "params" ->
         {Rpc(Wire("get-apps")), RpcWith(Wire("get-app"), FullParams),
          RpcWith(Wire("get-records"), EmptyObj),
          RpcWith(Wire("delete-records"), FullParams),
          RpcWith(OtherWire("get-apps"), FullParams),
          FullParams, BadParams}
    [] f = "id" -> {Str(<<"1">>), Num(0)}
    [] f = "operationId" ->
         {Plain("getApps"), Plain("getApp"), Plain("createPayment"),
          Plain("deleteRecords")}
    [] f = "context" -> {Obj("input" :> FullParams), EmptyObj}
    [] f = "name" ->
         {Wire("get-apps"), Wire("update-records"), Str(<<Target, Delim>>),
          Plain("get-apps")}
    [] f = "toolName" ->
         {Wire("get-apps"), Wire("delete-records"), Str(<<Target, Delim>>)}
    [] f = "tool_name" -> {Wire("get-records"), Str(<<Target, Delim, Family>>)}
    [] f = "arguments" -> {FullParams, EmptyObj}
    [] f = "Records" ->
         {Arr(<<>>), Arr(<<EmptyObj>>), Arr(<<Obj("body" :> Garbage)>>),
          Arr(<<QueueRecord(Call(Plain("get-apps")))>>),
          Arr(<<QueueRecord(CallWith(Plain("get-app"), FullParams))>>),
          Arr(<<QueueRecord(Call(Plain("get-apps"))),
                QueueRecord(CallWith(Plain("get-app"), FullParams))>>),
          Obj("length" :> Num(1))}
    [] f = "httpMethod" -> {Plain("POST")}
    [] f = "requestContext" -> {EmptyObj}
    [] f = "body" ->
         {JSONstringify(Call(Plain("get-apps"))),
          JSONstringify(CallWith(Plain("add-records"), FullParams)),
          JSONstringify(Call(Plain("nonexistent-tool"))),
          JSONstringify(Null), Garbage}
    [] f = "source" -> {Plain("aws.events"), Plain("aws.s3")}
    [] f = "detail" ->
         {Call(Plain("get-apps")), CallWith(Plain("get-form-fields"), FullParams),
          EmptyObj}
    [] f = "tool" ->
         {Plain("get-apps"), Plain("get-app"), Plain("get-records"),
          Plain("add-records"), Plain("get-form-fields"),
          Plain("nonexistent-tool"), Str(<<Family, "get-apps">>), EmptyStr}
    [] f = "app" -> {Str(<<"1">>)}

\* The environment variables read by getKintoneConfig.
Variables == {"KINTONE_BASE_URL", "KINTONE_USERNAME", "KINTONE_PASSWORD"}

VARIABLES
  entry,       \* the Lambda entry point deployed: "index" or "guide"
  invocations, \* the invocations of one execution environment, each with its locals
  request,     \* the caller's request under composition: field -> value
  env,         \* process.env: which of the variables are set
  pc,          \* "AwaitingRequest", "Calling" (suspended at the store call), "Completed"
  exit,        \* the return statement the handler left by ("none" before)
  kind,        \* the branch of the detection chain the handler entered
  rawTool,     \* `tool` as the branch assigned it
  tool,        \* `tool` after normalisation
  params,      \* `params`
  bodyParsed,  \* JSON.parse(event.body) was executed
  storeCalls,  \* the record-store operations invoked, in order
  result,      \* `result`, the outcome of the tool method
  thrown,      \* the error the outer catch block caught
  response     \* the value the handler returns

vars ==
  <<entry, invocations, request, env, pc, exit, kind, rawTool, tool, params, bodyParsed, storeCalls,
    result, thrown, response>>

\* The payload `event`: the request without the invocation context.  A
\* payload that is not an object is held by the request under "payload".
EventOf(req) ==
  IF "payload" \in DOMAIN req THEN req["payload"]
  ELSE Obj([f \in (DOMAIN req) \ {"clientContext"} |-> req[f]])

\* Object.keys(x), for x that is not null or undefined
keysOf(x) ==
  CASE x.t = "object" -> DOMAIN x.v
    [] x.t \in {"string", "array"} -> 1..Len(x.v)
    [] OTHER -> {}
\* `context`: only clientContext is read by the code.
ContextOf(req) ==
  IF "clientContext" \in DOMAIN req
  THEN Obj("clientContext" :> req["clientContext"])
  ELSE EmptyObj

event == EventOf(request)
context == ContextOf(request)

None == [t |-> "none"]

Init ==
  /\ entry = "index"
  /\ invocations = <<>>
  /\ request = <<>>
  /\ env = [v \in Variables |-> TRUE]
  /\ pc = "AwaitingRequest"
  /\ exit = "none"
  /\ kind = "None"
  /\ rawTool = Undef
  /\ tool = Undef
  /\ params = Undef
  /\ bodyParsed = FALSE
  /\ storeCalls = <<>>
  /\ result = None
  /\ thrown = None
  /\ response = None

(***************************************************************************)
(* getKintoneConfig / createKintoneClient                                  *)
(***************************************************************************)
\* Returns the configuration, or the Error it throws.
getKintoneConfig(e) ==
  IF ~e.KINTONE_BASE_URL
  THEN [threw |-> TRUE, message |-> <<"KINTONE_BASE_URL is not set">>]
  ELSE IF e.KINTONE_USERNAME /\ e.KINTONE_PASSWORD
       THEN [threw |-> FALSE,
             config |-> [baseUrl |-> TRUE, username |-> TRUE, password |-> TRUE]]
       ELSE [threw |-> TRUE, message |-> <<"credentials are not set">>]

createKintoneClient(config) ==
  IF config.username /\ config.password
  THEN [threw |-> FALSE]
  ELSE [threw |-> TRUE, message |-> <<"username and password are not set">>]

(***************************************************************************)
(* handler: detection of the calling convention (patterns 1 to 11)         *)
(***************************************************************************)
\* (context.clientContext as any)?.custom
customContextOf(ctx) ==
  IF CanRead(Get(ctx, "clientContext"))
  THEN Get(Get(ctx, "clientContext"), "custom")
  ELSE Undef

\* (context.clientContext as any)?.custom?.bedrockAgentCoreToolName ||
\* (context.clientContext as any)?.Custom?.bedrockAgentCoreToolName
gatewayToolNameOf(ctx) ==
  LET cc == Get(ctx, "clientContext")
      lower == IF CanRead(cc) /\ CanRead(Get(cc, "custom"))
               THEN Get(Get(cc, "custom"), "bedrockAgentCoreToolName") ELSE Undef
      upper == IF CanRead(cc) /\ CanRead(Get(cc, "Custom"))
               THEN Get(Get(cc, "Custom"), "bedrockAgentCoreToolName") ELSE Undef
  IN OrElse(lower, upper)

\* toolMapping[operationId] || operationId
toolMapping(operationId) ==
  CASE operationId = Plain("getApps") -> Plain("get-apps")
    [] operationId = Plain("getApp") -> Plain("get-app")
    [] operationId = Plain("getRecords") -> Plain("get-records")
    [] operationId = Plain("addRecords") -> Plain("add-records")
    [] operationId = Plain("getFormFields") -> Plain("get-form-fields")
    [] operationId = Plain("createPayment") -> Plain("get-apps")
    [] operationId = Plain("processRefund") -> Plain("get-apps")
    [] OTHER -> Undef

GatewayPrefix == <<Target, Delim>>

\* x.replace('MyKintoneTarget___', '').replace('kintone-', '')
stripLegacy(x) == replaceFirst(replaceFirst(x, GatewayPrefix), <<Family>>)

\* Mutant: only the name field is tested for the prefix.
hasNamePrefixOnly(ev, field) ==
  field = "name" /\ Truthy(Get(ev, field)) /\ startsWith(Get(ev, field), GatewayPrefix)

\* event.<field> && event.<field>.startsWith('MyKintoneTarget___')
hasGatewayPrefix(ev, field) ==
  Truthy(Get(ev, field)) /\ startsWith(Get(ev, field), GatewayPrefix)

\* Mutant: the context.input alternative of pattern 4 is forgotten.
isOperationIdOnly(ev) == Truthy(Get(ev, "operationId"))

\* event.operationId || (event.context && event.context.input !== undefined)
isOperationIdForm(ev) ==
  \/ Truthy(Get(ev, "operationId"))
  \/ /\ Truthy(Get(ev, "context"))
     /\ Get(Get(ev, "context"), "input") # Undef

Extracted(k, toolv, paramsv) ==
  [kind |-> k, tool |-> toolv, params |-> paramsv, bodyParsed |-> FALSE,
   outcome |-> "extracted"]
Threw(k, errName, msg, parsed) ==
  [kind |-> k, tool |-> Undef, params |-> Undef, bodyParsed |-> parsed,
   outcome |-> "threw", name |-> errName, message |-> msg]

CorsHeaders ==
  [ContentType |-> "application/json", AccessControlAllowOrigin |-> "*"]

\* Pattern 1: the gateway's tool name on the invocation context.
detectGateway(ev, ctx) ==
  LET originalToolName == Get(customContextOf(ctx), "bedrockAgentCoreToolName")
  IN IF NotAString(originalToolName)
     THEN Threw("GatewayManaged", "TypeError", <<"includes is not a function">>, FALSE)
     ELSE
     Extracted("GatewayManaged",
       IF includes(originalToolName, <<Delim>>)
       THEN replaceFirst(
              substring(originalToolName, indexOf(originalToolName, <<Delim>>) + 1),
              <<Family>>)
       ELSE originalToolName,
       ev)

\* Pattern 3: MCP tools/call.
detectMcp(ev) ==
  LET toolName == Get(Get(ev, "params"), "name")
      toolArgs == OrElse(Get(Get(ev, "params"), "arguments"), EmptyObj)
  IN IF NotAString(toolName)
     THEN Threw("JsonRpcCall", "TypeError", <<"startsWith is not a function">>, FALSE)
     ELSE
     Extracted("JsonRpcCall",
       IF Truthy(toolName) /\ startsWith(toolName, GatewayPrefix)
       THEN stripLegacy(toolName) ELSE toolName,
       toolArgs)

\* Pattern 4: operationId (old gateway form).
detectOperationId(ev) ==
  LET operationId == Get(ev, "operationId")
      ctxField == Get(ev, "context")
  IN Extracted("LegacyOperationId",
       IF Truthy(operationId) THEN OrElse(toolMapping(operationId), operationId)
       ELSE Undef,
       OrElse(IF CanRead(ctxField) THEN Get(ctxField, "input") ELSE Undef, EmptyObj))

\* Mutant: the record read is the last one delivered.
detectQueueLast(ev) ==
  LET records == Get(ev, "Records").v
      record == IF Len(records) > 0 THEN records[Len(records)] ELSE Undef
  IN IF ~CanRead(record)
     THEN Threw("QueueMessage", "TypeError", <<"cannot read 'body' of undefined">>, FALSE)
     ELSE IF ~Truthy(Get(record, "body"))
     THEN Extracted("QueueMessage", Undef, Undef)
     ELSE IF ~IsJSON(Get(record, "body")) \/ ~CanRead(JSONparse(Get(record, "body")))
     THEN Threw("QueueMessage", "Error", <<"invalid JSON in the SQS/SNS body">>, FALSE)
     ELSE Extracted("QueueMessage",
            Get(JSONparse(Get(record, "body")), "tool"),
            Get(JSONparse(Get(record, "body")), "params"))

\* Pattern 8: SQS/SNS.  Only Records[0] is read.
detectQueue(ev) ==
  LET records == Get(ev, "Records").v
      record == IF Len(records) > 0 THEN records[1] ELSE Undef
  IN IF ~CanRead(record)
     THEN Threw("QueueMessage", "TypeError", <<"cannot read 'body' of undefined">>, FALSE)
     ELSE IF ~Truthy(Get(record, "body"))
     THEN Extracted("QueueMessage", Undef, Undef)
     ELSE IF ~IsJSON(Get(record, "body")) \/ ~CanRead(JSONparse(Get(record, "body")))
     THEN Threw("QueueMessage", "Error", <<"invalid JSON in the SQS/SNS body">>, FALSE)
     ELSE Extracted("QueueMessage",
            Get(JSONparse(Get(record, "body")), "tool"),
            Get(JSONparse(Get(record, "body")), "params"))

\* Pattern 9: API Gateway proxy event.
detectHttp(ev) ==
  LET body == Get(ev, "body")
      requestData == IF Truthy(body) THEN JSONparse(body) ELSE EmptyObj
  IN IF Truthy(body) /\ ~IsJSON(body)
     THEN [kind |-> "HttpProxy", tool |-> Undef, params |-> Undef,
           bodyParsed |-> TRUE, outcome |-> "returned",
           response |-> [statusCode |-> 400, headers |-> CorsHeaders,
                         body |-> JSONstringify(
                           [success |-> FALSE,
                            error |-> <<"invalid JSON in the request body">>])]]
     ELSE IF ~CanRead(requestData)
     THEN Threw("HttpProxy", "TypeError", <<"cannot read 'tool' of null">>, TRUE)
     ELSE [Extracted("HttpProxy", Get(requestData, "tool"), Get(requestData, "params"))
             EXCEPT !.bodyParsed = Truthy(body)]

\* Pattern 10: EventBridge.
detectEventBridge(ev) ==
  LET detail == Get(ev, "detail")
  IN Extracted("EventBus",
       IF CanRead(detail) THEN Get(detail, "tool") ELSE Undef,
       OrElse(IF CanRead(detail) THEN Get(detail, "params") ELSE Undef, EmptyObj))

\* The if / else-if chain of the handler: the branch entered, and the raw
\* tool and params it assigns.
detect(ev, ctx) ==
  IF Truthy(customContextOf(ctx))
     /\ Truthy(Get(customContextOf(ctx), "bedrockAgentCoreToolName"))
  THEN detectGateway(ev, ctx)
  ELSE IF keysOf(ev) = {}
  THEN Extracted("EmptyPayload", Plain("get-apps"), EmptyObj)
  ELSE IF Get(ev, "method") = Plain("tools/call") /\ Truthy(Get(ev, "params"))
  THEN detectMcp(ev)
  ELSE IF isOperationIdForm(ev)
  THEN detectOperationId(ev)
  ELSE IF NotAString(Get(ev, "name"))
  THEN Threw("None", "TypeError", <<"startsWith is not a function">>, FALSE)
  ELSE IF hasGatewayPrefix(ev, "name")
  THEN Extracted("LegacyPrefixedName:name", stripLegacy(Get(ev, "name")),
                 OrElse(Get(ev, "arguments"), EmptyObj))
  ELSE IF NotAString(Get(ev, "toolName"))
  THEN Threw("None", "TypeError", <<"startsWith is not a function">>, FALSE)
  ELSE IF hasGatewayPrefix(ev, "toolName")
  THEN Extracted("LegacyPrefixedName:toolName", stripLegacy(Get(ev, "toolName")),
                 OrElse(Get(ev, "arguments"), OrElse(Get(ev, "params"), EmptyObj)))
  ELSE IF NotAString(Get(ev, "tool_name"))
  THEN Threw("None", "TypeError", <<"startsWith is not a function">>, FALSE)
  ELSE IF hasGatewayPrefix(ev, "tool_name")
  THEN Extracted("LegacyPrefixedName:tool_name", stripLegacy(Get(ev, "tool_name")),
                 OrElse(Get(ev, "arguments"), OrElse(Get(ev, "params"), EmptyObj)))
  ELSE IF Truthy(Get(ev, "Records")) /\ Get(ev, "Records").t = "array"
  THEN detectQueue(ev)
  ELSE IF Truthy(Get(ev, "httpMethod")) \/ Truthy(Get(ev, "requestContext"))
  THEN detectHttp(ev)
  ELSE IF Truthy(Get(ev, "source")) /\ Get(ev, "source") = Plain("aws.events")
  THEN detectEventBridge(ev)
  ELSE Extracted("DirectInvoke", Get(ev, "tool"), Get(ev, "params"))

(***************************************************************************)
(* handler: tool-name normalisation                                        *)
(***************************************************************************)
CanonicalIds ==
  {"get-apps", "get-app", "get-records", "add-records", "get-form-fields",
   "update-records", "delete-records"}

\* Mutant: the alias table renames update-records.
toolNameMappingRenaming(toolv) ==
  IF toolv = Plain("update-records") THEN Plain("add-records")
  ELSE IF toolv.t = "string" /\ Len(toolv.v) = 1 /\ toolv.v[1] \in CanonicalIds
  THEN toolv ELSE Undef

\* toolNameMapping[tool]
toolNameMapping(toolv) ==
  IF toolv.t = "string" /\ Len(toolv.v) = 1 /\ toolv.v[1] \in CanonicalIds
  THEN toolv ELSE Undef

\* if (tool && tool.startsWith('kintone-')) tool = tool.replace('kintone-', '')
\* if (tool && toolNameMapping[tool]) tool = toolNameMapping[tool]
normalize(toolv) ==
  LET stripped == IF Truthy(toolv) /\ startsWith(toolv, <<Family>>)
                  THEN replaceFirst(toolv, <<Family>>)
                  ELSE toolv
  IN IF Truthy(stripped) /\ Truthy(toolNameMapping(stripped))
     THEN toolNameMapping(stripped)
     ELSE stripped

(***************************************************************************)
(* The handler of the deployment guide: extractToolName and the removal of *)
(* the family prefix                                                       *)
(***************************************************************************)
\* toolName.split('___'): the last part
lastPart(w) ==
  IF \E i \in 1..Len(w) : w[i] = Delim
  THEN SubSeq(w, (CHOOSE i \in 1..Len(w) :
                    w[i] = Delim /\ \A j \in (i + 1)..Len(w) : w[j] # Delim) + 1,
              Len(w))
  ELSE w

extractToolName(toolName) ==
  IF Truthy(toolName) /\ includes(toolName, <<Delim>>)
  THEN Str(lastPart(toolName.v))
  ELSE toolName

\* toolName = extractToolName(...);
\* if (toolName && toolName.startsWith('kintone-')) toolName = toolName.replace('kintone-', '')
guideToolName(raw) ==
  LET toolName == extractToolName(raw)
  IN IF Truthy(toolName) /\ startsWith(toolName, <<Family>>)
     THEN replaceFirst(toolName, <<Family>>)
     ELSE toolName

(***************************************************************************)
(* The zod schemas.  parse() throws unless the input is an object whose    *)
(* required keys have the declared types; it returns the declared keys.    *)
(***************************************************************************)
IsType(x, ty) == x.t = ty
IsOptional(x, ty) == x.t = "undefined" \/ x.t = ty
IsArrayOf(x, ty) == x.t = "array" /\ \A i \in 1..Len(x.v) : x.v[i].t = ty

\* The declared keys that are present in the input.
Pick(p, keys) == Obj([k \in {q \in keys : Get(p, q) # Undef} |-> Get(p, k)])

getRecordsSchema(p) ==
  [ok |-> /\ IsType(p, "object")
          /\ IsType(Get(p, "app"), "string")
          /\ IsOptional(Get(p, "query"), "string")
          /\ \/ Get(p, "fields") = Undef
             \/ IsArrayOf(Get(p, "fields"), "string")
          /\ IsOptional(Get(p, "totalCount"), "boolean"),
   data |-> Pick(p, {"app", "query", "fields", "totalCount"})]

getAppSchema(p) ==
  [ok |-> IsType(p, "object") /\ IsType(Get(p, "id"), "string"),
   data |-> Pick(p, {"id"})]

addRecordsSchema(p) ==
  [ok |-> /\ IsType(p, "object")
          /\ IsType(Get(p, "app"), "string")
          /\ IsArrayOf(Get(p, "records"), "object"),
   data |-> Pick(p, {"app", "records"})]

(***************************************************************************)
(* KintoneTools: one record-store call per method                          *)
(***************************************************************************)
Implemented ==
  {"get-records", "get-app", "add-records", "get-apps", "get-form-fields"}

\* The schema the switch statement applies to `params` for a tool.
schemaOf(name, p) ==
  CASE name = "get-records" -> getRecordsSchema(p)
    [] name = "get-app" -> getAppSchema(p)
    [] name = "add-records" -> addRecordsSchema(p)
    [] name = "get-form-fields" -> getAppSchema(p)
    [] OTHER -> [ok |-> TRUE, data |-> Undef]

\* The call a tool method makes: the client operation and its argument.
storeCallOf(name, p) ==
  CASE name = "get-records" ->
         [op |-> "record.getRecords",
          args |-> Obj(("app" :> Get(p, "app")) @@ ("query" :> Get(p, "query"))
                       @@ ("fields" :> Get(p, "fields"))
                       @@ ("totalCount" :>
                             IF Get(p, "totalCount").t \in {"undefined", "null"}
                             THEN Bool(TRUE) ELSE Get(p, "totalCount")))]
    [] name = "get-app" ->
         [op |-> "app.getApp", args |-> Obj("id" :> Get(p, "id"))]
    [] name = "add-records" ->
         [op |-> "record.addRecords",
          args |-> Obj(("app" :> Get(p, "app")) @@ ("records" :> Get(p, "records")))]
    [] name = "get-apps" -> [op |-> "app.getApps", args |-> EmptyObj]
    [] name = "get-form-fields" ->
         [op |-> "app.getFormFields", args |-> Obj("app" :> Get(p, "id"))]

\* What the record store answers to an operation that succeeds.
StoreResponse(op) ==
  CASE op = "record.getRecords" ->
         Obj(("records" :> Arr(<<OneRecord>>)) @@ ("totalCount" :> Str(<<"1">>)))
    [] op = "app.getApp" ->
         Obj(("appId" :> Str(<<"1">>)) @@ ("name" :> Str(<<"Sample">>)))
    [] op = "record.addRecords" ->
         Obj(("ids" :> Arr(<<Str(<<"10">>)>>)) @@ ("revisions" :> Arr(<<Str(<<"1">>)>>)))
    [] op = "app.getApps" ->
         Obj("apps" :> Arr(<<Obj("appId" :> Str(<<"1">>))>>))
    [] op = "app.getFormFields" ->
         Obj(("properties" :> Obj("Company" :> Obj("type" :> Str(<<"TEXT">>))))
             @@ ("revision" :> Str(<<"5">>)))

\* What a failing record-store call throws: an Error with a message, or a
\* value that is not an Error.
StoreFailures ==
  {[isError |-> TRUE, message |-> <<"network error">>],
   [isError |-> FALSE, message |-> <<>>]}

\* The `success: true` value a tool method builds from the store's response.
successOf(op, resp) ==
  CASE op = "record.getRecords" ->
         [success |-> TRUE,
          data |-> Obj(("records" :> Get(resp, "records"))
                       @@ ("totalCount" :> Get(resp, "totalCount")))]
    [] op = "app.getApp" -> [success |-> TRUE, data |-> resp]
    [] op = "record.addRecords" ->
         [success |-> TRUE,
          data |-> Obj(("ids" :> Get(resp, "ids"))
                       @@ ("revisions" :> Get(resp, "revisions")))]
    [] op = "app.getApps" ->
         [success |-> TRUE, data |-> Obj("apps" :> Get(resp, "apps"))]
    [] op = "app.getFormFields" ->
         [success |-> TRUE, data |-> Obj("properties" :> Get(resp, "properties"))]

\* The fallback message of each method's catch block.
fallbackMessage(op) ==
  CASE op = "record.getRecords" -> <<"failed to get records">>
    [] op = "app.getApp" -> <<"failed to get the app">>
    [] op = "record.addRecords" -> <<"failed to add records">>
    [] op = "app.getApps" -> <<"failed to get the apps">>
    [] op = "app.getFormFields" -> <<"failed to get the form fields">>

\* Mutant: the catch block reports its own message, not the error's.
failureWithoutMessage(op, err) == [success |-> FALSE, error |-> fallbackMessage(op)]

\* The `success: false` value a tool method builds in its catch block.
failureOf(op, err) ==
  [success |-> FALSE,
   error |-> IF err.isError THEN err.message ELSE fallbackMessage(op)]

(***************************************************************************)
(* handler: rendering of the response                                      *)
(***************************************************************************)
\* event.method === 'tools/call'
isMcpCall(ev) == Get(ev, "method") = Plain("tools/call")

\* Mutant: every answer that is not JSON-RPC is wrapped as an HTTP response.
isAlwaysHttpShaped(ev, ctx) == TRUE

\* The condition under which the handler answers {statusCode, headers, body}.
isHttpShaped(ev, ctx) ==
  \/ Truthy(gatewayToolNameOf(ctx))
  \/ isOperationIdForm(ev)
  \/ hasGatewayPrefix(ev, "name")
  \/ Truthy(Get(ev, "httpMethod"))
  \/ Truthy(Get(ev, "requestContext"))

\* event.id || 1
idOf(ev) == OrElse(Get(ev, "id"), Num(1))

Timestamp == Str(<<"ISO-8601 now">>)

ToolNotSpecified == <<"tool name is not specified">>
UnsupportedTool(toolv) == <<"unsupported tool: ">> \o toolv.v

debugOf(ev, ctx) ==
  [eventKeys |-> keysOf(ev),
   eventType |-> IF ev.t = "array" THEN "object" ELSE ev.t,
   hasMethod |-> Truthy(Get(ev, "method")),
   hasOperationId |-> Truthy(Get(ev, "operationId")),
   hasName |-> Truthy(Get(ev, "name")),
   hasToolName |-> Truthy(Get(ev, "toolName")),
   hasClientContext |-> Truthy(Get(ctx, "clientContext")),
   hasCustomContext |->
     /\ CanRead(Get(ctx, "clientContext"))
     /\ \/ Truthy(Get(Get(ctx, "clientContext"), "custom"))
        \/ Truthy(Get(Get(ctx, "clientContext"), "Custom")),
   bedrockAgentCoreToolName |-> gatewayToolNameOf(ctx)]

HttpResponse(status, content) ==
  [statusCode |-> status, headers |-> CorsHeaders, body |-> JSONstringify(content)]

\* if (!tool) { ... }
renderMissingTool(ev, ctx) ==
  LET errorResponse ==
        [success |-> FALSE, error |-> ToolNotSpecified, debug |-> debugOf(ev, ctx)]
  IN IF isMcpCall(ev)
     THEN [jsonrpc |-> "2.0", id |-> idOf(ev),
           error |-> [code |-> -32602, message |-> ToolNotSpecified,
                      data |-> errorResponse.debug]]
     ELSE IF isHttpShaped(ev, ctx)
     THEN HttpResponse(400, errorResponse)
     ELSE errorResponse

\* Mutant: an unsupported tool is reported with the code of a missing tool.
renderUnsupportedAsInvalid(ev, ctx, toolv) ==
  LET errorResponse == [success |-> FALSE, error |-> UnsupportedTool(toolv)]
  IN IF isMcpCall(ev)
     THEN [jsonrpc |-> "2.0", id |-> idOf(ev),
           error |-> [code |-> -32602, message |-> UnsupportedTool(toolv),
                      data |-> [availableTools |-> CanonicalIds]]]
     ELSE IF isHttpShaped(ev, ctx)
     THEN HttpResponse(400, errorResponse)
     ELSE errorResponse

\* default: of the switch statement
renderUnsupported(ev, ctx, toolv) ==
  LET errorResponse == [success |-> FALSE, error |-> UnsupportedTool(toolv)]
  IN IF isMcpCall(ev)
     THEN [jsonrpc |-> "2.0", id |-> idOf(ev),
           error |-> [code |-> -32601, message |-> UnsupportedTool(toolv),
                      data |-> [availableTools |-> CanonicalIds]]]
     ELSE IF isHttpShaped(ev, ctx)
     THEN HttpResponse(400, errorResponse)
     ELSE errorResponse

\* The return of `result` after the switch statement.
renderResult(ev, ctx, res) ==
  IF isMcpCall(ev)
  THEN [jsonrpc |-> "2.0", id |-> idOf(ev),
        result |-> [isError |-> ~res.success,
                    content |-> <<[type |-> "text", text |-> JSONstringify(res)]>>]]
  ELSE IF isHttpShaped(ev, ctx)
  THEN HttpResponse(200, res)
  ELSE res

\* catch (error) { ... }
renderCaught(ev, ctx, errorMessage) ==
  LET errorResponse ==
        [success |-> FALSE, error |-> errorMessage, timestamp |-> Timestamp]
  IN IF isMcpCall(ev)
     THEN [jsonrpc |-> "2.0", id |-> idOf(ev),
           error |-> [code |-> -32603, message |-> errorMessage,
                      data |-> [timestamp |-> Timestamp]]]
     ELSE IF isHttpShaped(ev, ctx)
     THEN HttpResponse(500, errorResponse)
     ELSE errorResponse

(***************************************************************************)
(* handler: from the invocation to the record-store call or to the return  *)
(***************************************************************************)
\* How the handler left: the return statement taken, with the error caught
\* by the outer catch block when that is the one.
Exit(k, raw, toolv, paramsv, parsed, how, err, resp) ==
  [pc |-> "Completed", exit |-> how, kind |-> k, rawTool |-> raw, tool |-> toolv,
   params |-> paramsv, bodyParsed |-> parsed, storeCalls |-> <<>>,
   thrown |-> err, response |-> resp]

Error(name, msg) == [name |-> name, message |-> msg]

\* The handler's promise is rejected with err: no value is returned.
Escaped(k, raw, toolv, paramsv, parsed, err) ==
  [pc |-> "Completed", exit |-> "rejected", kind |-> k, rawTool |-> raw, tool |-> toolv,
   params |-> paramsv, bodyParsed |-> parsed, storeCalls |-> <<>>,
   thrown |-> err, response |-> None]

\* The condition of the catch block's second `if` calls event.name.startsWith
\* on a value without that method, once the conditions before it are false.
catchThrows(ev, ctx) ==
  /\ ~isMcpCall(ev)
  /\ ~Truthy(gatewayToolNameOf(ctx))
  /\ ~isOperationIdForm(ev)
  /\ NotAString(Get(ev, "name"))

\* The catch block entered with err: it returns the rendered failure, or
\* throws while it chooses the rendering.
Caught(ev, ctx, k, raw, toolv, paramsv, parsed, err) ==
  IF catchThrows(ev, ctx)
  THEN Escaped(k, raw, toolv, paramsv, parsed,
               Error("TypeError", <<"startsWith is not a function">>))
  ELSE Exit(k, raw, toolv, paramsv, parsed, "catch", err,
            renderCaught(ev, ctx, err.message))

\* The switch statement without the schemas: the tool method is called with
\* `params` as the request gave them.
dispatchUnvalidated(ev, ctx, d, toolv) ==
  IF Len(toolv.v) = 1 /\ toolv.v[1] \in Implemented
  THEN [pc |-> "Calling", exit |-> "none", kind |-> d.kind, rawTool |-> d.tool,
        tool |-> toolv, params |-> d.params, bodyParsed |-> d.bodyParsed,
        storeCalls |-> <<storeCallOf(toolv.v[1], d.params)>>,
        thrown |-> None, response |-> None]
  ELSE Exit(d.kind, d.tool, toolv, d.params, d.bodyParsed, "unsupportedTool", None,
            renderUnsupported(ev, ctx, toolv))

\* The switch statement up to the await of the tool method.
dispatch(ev, ctx, d, toolv) ==
  IF Len(toolv.v) = 1 /\ toolv.v[1] \in Implemented
  THEN IF schemaOf(toolv.v[1], d.params).ok
       THEN [pc |-> "Calling", exit |-> "none", kind |-> d.kind, rawTool |-> d.tool,
             tool |-> toolv, params |-> d.params, bodyParsed |-> d.bodyParsed,
             storeCalls |-> <<storeCallOf(toolv.v[1], schemaOf(toolv.v[1], d.params).data)>>,
             thrown |-> None, response |-> None]
       ELSE Caught(ev, ctx, d.kind, d.tool, toolv, d.params, d.bodyParsed,
                   Error("ZodError", <<"ZodError">>))
  ELSE Exit(d.kind, d.tool, toolv, d.params, d.bodyParsed, "unsupportedTool", None,
            renderUnsupported(ev, ctx, toolv))

\* The log statement after the detection evaluates the three prefix tests
\* again, for every request: startsWith is called on the first of name,
\* toolName, tool_name that is reached and truthy.
logThrows(ev) ==
  \/ NotAString(Get(ev, "name"))
  \/ /\ ~hasGatewayPrefix(ev, "name")
     /\ \/ NotAString(Get(ev, "toolName"))
        \/ ~hasGatewayPrefix(ev, "toolName") /\ NotAString(Get(ev, "tool_name"))

\* The try block of `handler` up to its first suspension or its return, the
\* return of the catch block included.
handlerTry(ev, ctx, e) ==
  LET cfg == getKintoneConfig(e)
      d == detect(ev, ctx)
  IN IF cfg.threw
     THEN Caught(ev, ctx, "None", Undef, Undef, Undef, FALSE, Error("Error", cfg.message))
     ELSE IF createKintoneClient(cfg.config).threw
     THEN Caught(ev, ctx, "None", Undef, Undef, Undef, FALSE,
                 Error("Error", createKintoneClient(cfg.config).message))
     ELSE IF d.outcome = "returned"
     THEN Exit(d.kind, Undef, Undef, Undef, d.bodyParsed, "invalidBody", None,
               d.response)
     ELSE IF d.outcome = "threw"
     THEN Caught(ev, ctx, d.kind, Undef, Undef, Undef, d.bodyParsed,
                 Error(d.name, d.message))
     ELSE IF logThrows(ev) \/ NotAString(d.tool)
     THEN Caught(ev, ctx, d.kind, d.tool, d.tool, d.params, d.bodyParsed,
                 Error("TypeError", <<"startsWith is not a function">>))
     ELSE IF ~Truthy(normalize(d.tool))
     THEN Exit(d.kind, d.tool, normalize(d.tool), d.params, d.bodyParsed,
               "missingTool", None, renderMissingTool(ev, ctx))
     ELSE dispatch(ev, ctx, d, normalize(d.tool))

\* The body of `handler` up to its first suspension, its return, or the
\* exception it ends with: Object.keys(event) before the try block throws
\* for null, and the catch block may throw again.
handlerStart(ev, ctx, e) ==
  IF ~CanRead(ev)
  THEN Escaped("None", Undef, Undef, Undef, FALSE,
               Error("TypeError", <<"cannot convert undefined or null to object">>))
  ELSE handlerTry(ev, ctx, e)

(***************************************************************************)
(* The handler of the deployment guide: three calling conventions, the     *)
(* same schemas and tools, and its own rendering                           *)
(***************************************************************************)
GuideHeaders == [ContentType |-> "application/json"]

GuideHttpResponse(status, content) ==
  [statusCode |-> status, headers |-> GuideHeaders, body |-> JSONstringify(content)]

\* customContext?.bedrockAgentCoreToolName
guideGatewayName(ctx) ==
  IF CanRead(customContextOf(ctx))
  THEN Get(customContextOf(ctx), "bedrockAgentCoreToolName")
  ELSE Undef

\* The if / else-if / else of the guide's handler.
guideDetect(ev, ctx) ==
  IF Truthy(customContextOf(ctx))
     /\ Truthy(Get(customContextOf(ctx), "bedrockAgentCoreToolName"))
  THEN IF NotAString(Get(customContextOf(ctx), "bedrockAgentCoreToolName"))
       THEN Threw("GatewayManaged", "TypeError", <<"includes is not a function">>, FALSE)
       ELSE
       Extracted("GatewayManaged",
         extractToolName(Get(customContextOf(ctx), "bedrockAgentCoreToolName")), ev)
  ELSE IF ~CanRead(ev)
  THEN Threw("None", "TypeError", <<"cannot read 'method' of null">>, FALSE)
  ELSE IF isMcpCall(ev) /\ Truthy(Get(ev, "params"))
  THEN IF NotAString(Get(Get(ev, "params"), "name"))
       THEN Threw("JsonRpcCall", "TypeError", <<"includes is not a function">>, FALSE)
       ELSE
       Extracted("JsonRpcCall",
         extractToolName(Get(Get(ev, "params"), "name")),
         OrElse(Get(Get(ev, "params"), "arguments"), EmptyObj))
  ELSE Extracted("DirectInvoke", Get(ev, "tool"), OrElse(Get(ev, "params"), EmptyObj))

\* if (toolName && toolName.startsWith('kintone-')) toolName = toolName.replace('kintone-', '')
guideStrip(toolName) ==
  IF Truthy(toolName) /\ startsWith(toolName, <<Family>>)
  THEN replaceFirst(toolName, <<Family>>)
  ELSE toolName

\* if (!toolName) { ... }
guideRenderMissingTool(ev, ctx) ==
  LET errorResponse == [success |-> FALSE, error |-> ToolNotSpecified]
  IN IF isMcpCall(ev)
     THEN [jsonrpc |-> "2.0", id |-> idOf(ev),
           error |-> [code |-> -32602, message |-> ToolNotSpecified]]
     ELSE IF Truthy(guideGatewayName(ctx))
     THEN GuideHttpResponse(400, errorResponse)
     ELSE errorResponse

\* default: of the guide's switch statement
guideRenderUnsupported(ev, ctx, toolv) ==
  LET errorResponse == [success |-> FALSE, error |-> UnsupportedTool(toolv)]
  IN IF isMcpCall(ev)
     THEN [jsonrpc |-> "2.0", id |-> idOf(ev),
           error |-> [code |-> -32601, message |-> UnsupportedTool(toolv),
                      data |-> [availableTools |-> Implemented]]]
     ELSE IF Truthy(guideGatewayName(ctx))
     THEN GuideHttpResponse(400, errorResponse)
     ELSE errorResponse

\* The return of `result` in the guide's handler.
guideRenderResult(ev, ctx, res) ==
  IF isMcpCall(ev)
  THEN [jsonrpc |-> "2.0", id |-> idOf(ev),
        result |-> [isError |-> ~res.success,
                    content |-> <<[type |-> "text", text |-> JSONstringify(res)]>>]]
  ELSE IF Truthy(guideGatewayName(ctx))
  THEN GuideHttpResponse(200, res)
  ELSE res

\* catch (error) { ... } of the guide's handler
guideRenderCaught(ev, ctx, errorMessage) ==
  LET errorResponse ==
        [success |-> FALSE, error |-> errorMessage, timestamp |-> Timestamp]
  IN IF isMcpCall(ev)
     THEN [jsonrpc |-> "2.0", id |-> idOf(ev),
           error |-> [code |-> -32603, message |-> errorMessage]]
     ELSE IF Truthy(guideGatewayName(ctx))
     THEN GuideHttpResponse(500, errorResponse)
     ELSE errorResponse

\* The TypeError of reading event.method when event is null.
NullEvent == Error("TypeError", <<"cannot read 'method' of null">>)

\* The guide's catch block entered with err: it returns the rendered
\* failure, or throws at event.method.
guideCaught(ev, ctx, k, raw, toolv, paramsv, err) ==
  IF ~CanRead(ev)
  THEN Escaped(k, raw, toolv, paramsv, FALSE, NullEvent)
  ELSE Exit(k, raw, toolv, paramsv, FALSE, "catch", err,
            guideRenderCaught(ev, ctx, err.message))

\* The guide's switch statement up to the await of the tool method.
guideDispatch(ev, ctx, d, toolv) ==
  IF Len(toolv.v) = 1 /\ toolv.v[1] \in Implemented
  THEN IF schemaOf(toolv.v[1], d.params).ok
       THEN [pc |-> "Calling", exit |-> "none", kind |-> d.kind, rawTool |-> d.tool,
             tool |-> toolv, params |-> d.params, bodyParsed |-> d.bodyParsed,
             storeCalls |-> <<storeCallOf(toolv.v[1], schemaOf(toolv.v[1], d.params).data)>>,
             thrown |-> None, response |-> None]
       ELSE guideCaught(ev, ctx, d.kind, d.tool, toolv, d.params,
                        Error("ZodError", <<"ZodError">>))
  ELSE IF ~CanRead(ev)
  THEN guideCaught(ev, ctx, d.kind, d.tool, toolv, d.params, NullEvent)
  ELSE Exit(d.kind, d.tool, toolv, d.params, d.bodyParsed, "unsupportedTool", None,
            guideRenderUnsupported(ev, ctx, toolv))

\* The body of the guide's handler up to its first suspension, its return,
\* or the exception it ends with: every return statement reads event.method
\* first, the one of the catch block included, which throws for null.
guideHandlerStart(ev, ctx, e) ==
  LET cfg == getKintoneConfig(e)
      d == guideDetect(ev, ctx)
  IN IF cfg.threw
     THEN guideCaught(ev, ctx, "None", Undef, Undef, Undef, Error("Error", cfg.message))
     ELSE IF createKintoneClient(cfg.config).threw
     THEN guideCaught(ev, ctx, "None", Undef, Undef, Undef,
                      Error("Error", createKintoneClient(cfg.config).message))
     ELSE IF d.outcome = "threw"
     THEN guideCaught(ev, ctx, d.kind, Undef, Undef, Undef, Error(d.name, d.message))
     ELSE IF NotAString(d.tool)
     THEN guideCaught(ev, ctx, d.kind, d.tool, d.tool, d.params,
                      Error("TypeError", <<"startsWith is not a function">>))
     ELSE IF ~Truthy(guideStrip(d.tool)) /\ ~CanRead(ev)
     THEN guideCaught(ev, ctx, d.kind, d.tool, guideStrip(d.tool), d.params, NullEvent)
     ELSE IF ~Truthy(guideStrip(d.tool))
     THEN Exit(d.kind, d.tool, guideStrip(d.tool), d.params, d.bodyParsed,
               "missingTool", None, guideRenderMissingTool(ev, ctx))
     ELSE guideDispatch(ev, ctx, d, guideStrip(d.tool))

\* The handler of the entry point deployed.
startOf(which, ev, ctx, e) ==
  IF which = "index" THEN handlerStart(ev, ctx, e) ELSE guideHandlerStart(ev, ctx, e)

\* The return of `result` by the entry point deployed.
resultOf(which, ev, ctx, res) ==
  IF which = "index" THEN renderResult(ev, ctx, res) ELSE guideRenderResult(ev, ctx, res)

\* How the handler ends after the tool method returned res: by the return of
\* the rendered result, or, in the guide's handler with a null event, by the
\* TypeError of event.method, thrown in the try block and again in the catch
\* block.
finishOf(which, ev, ctx, res) ==
  IF which = "guide" /\ ~CanRead(ev)
  THEN [exit |-> "rejected", thrown |-> NullEvent, response |-> None]
  ELSE [exit |-> "result", thrown |-> None, response |-> resultOf(which, ev, ctx, res)]

\* The platform invokes the handler with the composed request.
Invoke ==
  /\ pc = "AwaitingRequest"
  /\ LET h == startOf(entry, event, context, env)
     IN /\ pc' = h.pc
        /\ exit' = h.exit
        /\ kind' = h.kind
        /\ rawTool' = h.rawTool
        /\ tool' = h.tool
        /\ params' = h.params
        /\ bodyParsed' = h.bodyParsed
        /\ storeCalls' = h.storeCalls
        /\ thrown' = h.thrown
        /\ response' = h.response
  /\ UNCHANGED <<entry, invocations, request, env, result>>

\* The awaited record-store call resolves; the tool method returns success.
StoreReturns ==
  /\ pc = "Calling"
  /\ LET op == storeCalls[Len(storeCalls)].op
         res == successOf(op, StoreResponse(op))
     IN /\ result' = res
        /\ exit' = finishOf(entry, event, context, res).exit
        /\ thrown' = finishOf(entry, event, context, res).thrown
        /\ response' = finishOf(entry, event, context, res).response
  /\ pc' = "Completed"
  /\ UNCHANGED <<entry, invocations, request, env, kind, rawTool, tool, params, bodyParsed,
                 storeCalls>>

\* Mutant: the tool method repeats a rejected call once.
StoreThrowsAndRetries(err) ==
  /\ pc = "Calling"
  /\ Len(storeCalls) < 2
  /\ storeCalls' = Append(storeCalls, storeCalls[Len(storeCalls)])
  /\ UNCHANGED <<entry, invocations, request, env, pc, exit, kind, rawTool, tool, params, bodyParsed,
                 result, thrown, response>>

\* The awaited record-store call rejects; the tool method catches it.
StoreThrows(err) ==
  /\ pc = "Calling"
  /\ LET op == storeCalls[Len(storeCalls)].op
         res == failureOf(op, err)
     IN /\ result' = res
        /\ exit' = finishOf(entry, event, context, res).exit
        /\ thrown' = finishOf(entry, event, context, res).thrown
        /\ response' = finishOf(entry, event, context, res).response
  /\ pc' = "Completed"
  /\ UNCHANGED <<entry, invocations, request, env, kind, rawTool, tool, params, bodyParsed,
                 storeCalls>>

\* The size of the input of an invocation: the fields of the request and
\* the variables missing from the environment.
InputSize == Cardinality(DOMAIN request) + Cardinality({v \in Variables : ~env[v]})

\* The caller adds one field to the request it is about to send.
Compose(f, v) ==
  /\ pc = "AwaitingRequest"
  /\ f \notin DOMAIN request
  /\ InputSize < MaxKeys
  /\ request' = (f :> v) @@ request
  /\ UNCHANGED <<entry, invocations, env, pc, exit, kind, rawTool, tool, params, bodyParsed, storeCalls,
                 result, thrown, response>>

\* The function is deployed without one of the environment variables.
Misconfigure(v) ==
  /\ pc = "AwaitingRequest"
  /\ env[v]
  /\ InputSize < MaxKeys
  /\ env' = [env EXCEPT ![v] = FALSE]
  /\ UNCHANGED <<entry, invocations, request, pc, exit, kind, rawTool, tool, params, bodyParsed, storeCalls,
                 result, thrown, response>>

Next ==
  \/ \E v \in Variables : Misconfigure(v)
  \/ \E f \in Fields : \E v \in FieldDom(f) : Compose(f, v)
  \/ Invoke
  \/ StoreReturns
  \/ \E err \in StoreFailures : StoreThrows(err)

Spec == Init /\ [][Next]_vars

(***************************************************************************)
(* Requests of one envelope each, with tool names of any composition and   *)
(* with parameters of any validity.                                        *)
(***************************************************************************)
\* Tool names: a target prefix or none, then up to MaxMiddle occurrences of
\* the delimiter, the family prefix and another word, then an identifier or
\* nothing.
Heads == {<<>>, <<Target, Delim>>, <<"OtherTarget", Delim>>}
Middles == UNION {[1..n -> {Family, Delim, "x-"}] : n \in 0..MaxMiddle}
Identifiers == CanonicalIds \cup {"getApps", "createPayment", "nonexistent-tool"}
Tails == {<<>>} \cup {<<id>> : id \in Identifiers}
RawNames == {Str(h \o m \o t) : h \in Heads, m \in Middles, t \in Tails}

\* Parameter objects for add-records and the other tools.
AppOnly == Obj("app" :> Str(<<"1">>))
EmptyRecords == Obj(("app" :> Str(<<"1">>)) @@ ("records" :> Arr(<<>>)))
RecordsNotObjects == Obj(("app" :> Str(<<"1">>)) @@ ("records" :> Arr(<<Str(<<"x">>)>>)))
ParamChoices == {FullParams, EmptyObj, BadParams, AppOnly, EmptyRecords, RecordsNotObjects}

\* The field that carries the tool name in each calling convention.
Carriers ==
  {"clientContext", "params", "operationId", "name", "toolName", "tool_name",
   "Records", "body", "detail", "tool"}

\* The request of the convention of carrier c for tool name n and parameters p.
NamedRequest(c, n, p) ==
  CASE c = "clientContext" -> ("clientContext" :> ClientContext(n)) @@ p.v
    [] c = "params" ->
         ("method" :> Plain("tools/call")) @@ ("params" :> RpcWith(n, p))
    [] c = "operationId" ->
         ("operationId" :> n) @@ ("context" :> Obj("input" :> p))
    [] c \in {"name", "toolName", "tool_name"} -> (c :> n) @@ ("arguments" :> p)
    [] c = "Records" -> ("Records" :> Arr(<<QueueRecord(CallWith(n, p))>>))
    [] c = "body" ->
         ("httpMethod" :> Plain("POST")) @@ ("body" :> JSONstringify(CallWith(n, p)))
    [] c = "detail" ->
         ("source" :> Plain("aws.events")) @@ ("detail" :> CallWith(n, p))
    [] c = "tool" -> ("tool" :> n) @@ ("params" :> p)

\* The name by which the convention of carrier c calls operation op.
NameFor(c, op) ==
  IF c \in {"clientContext", "params", "name", "toolName", "tool_name"}
  THEN Wire(op) ELSE Plain(op)

\* The caller sends tool name n by the convention of carrier c.
SendNamed(c, n) ==
  /\ pc = "AwaitingRequest"
  /\ request = <<>>
  /\ request' = NamedRequest(c, n, FullParams)
  /\ UNCHANGED <<entry, invocations, env, pc, exit, kind, rawTool, tool, params, bodyParsed, storeCalls,
                 result, thrown, response>>

\* The caller sends parameters p to operation op by the convention of c.
SendParams(c, op, p) ==
  /\ pc = "AwaitingRequest"
  /\ request = <<>>
  /\ request' = NamedRequest(c, NameFor(c, op), p)
  /\ UNCHANGED <<entry, invocations, env, pc, exit, kind, rawTool, tool, params, bodyParsed, storeCalls,
                 result, thrown, response>>

NextNamed ==
  \/ \E c \in Carriers : \E n \in RawNames : SendNamed(c, n)
  \/ \E c \in Carriers : \E op \in Implemented : \E p \in ParamChoices :
       SendParams(c, op, p)
  \/ Invoke
  \/ StoreReturns
  \/ \E err \in StoreFailures : StoreThrows(err)

SpecNamed == Init /\ [][NextNamed]_vars

(***************************************************************************)
(* Either entry point, under any configuration, invoked with any JSON      *)
(* payload: payloads that are not objects, fields of other types than the  *)
(* calling conventions foresee, and JSON-RPC requests with any id.         *)
(***************************************************************************)
Entries == {"index", "guide"}

\* process.env as deployed: complete, or one variable missing.
Environments ==
  {[v \in Variables |-> v # missing] : missing \in Variables \cup {"none"}}

\* The id member of a JSON-RPC request: a string, a number, or null.
Ids == {Str(<<"1">>), Num(7), Num(0), EmptyStr, Null}

McpRequest(n, a) == NamedRequest("params", n, a)

AnyRequests ==
  {("payload" :> x) : x \in {Null, Num(5), Str(<<"text">>), Arr(<<>>)}}
  \cup {("payload" :> Null) @@ ("clientContext" :> ClientContext(Wire(op))) :
          op \in {"get-apps", "get-app", "nonexistent-tool"}}
  \cup {(f :> Num(5)) : f \in {"name", "toolName", "tool_name", "tool", "operationId"}}
  \cup {("name" :> Num(5)) @@ r :
          r \in {("method" :> Plain("tools/call")), ("httpMethod" :> Plain("POST")),
                 ("context" :> Obj("input" :> EmptyObj)),
                 ("clientContext" :>
                    Obj("Custom" :> Obj("bedrockAgentCoreToolName" :> Wire("get-apps"))))}}
  \cup {McpRequest(Num(5), EmptyObj),
        ("method" :> Plain("tools/call")) @@ ("params" :> Num(5)),
        ("clientContext" :> ClientContext(Num(5))),
        ("clientContext" :> Null) @@ ("tool" :> Plain("get-apps")),
        ("clientContext" :> Obj("custom" :> Null)) @@ ("tool" :> Plain("get-apps")),
        ("Records" :> Arr(<<Null>>))}
  \cup {("id" :> i) @@ McpRequest(n, a) :
          i \in Ids,
          n \in {Wire("get-apps"), Wire("get-app"), Wire("update-records"), EmptyStr},
          a \in {FullParams, BadParams}}
  \cup {("id" :> i) @@ ("method" :> Plain("tools/call")) : i \in Ids}

InitAny ==
  /\ entry \in Entries
  /\ env \in Environments
  /\ invocations = <<>>
  /\ request = <<>>
  /\ pc = "AwaitingRequest"
  /\ exit = "none"
  /\ kind = "None"
  /\ rawTool = Undef
  /\ tool = Undef
  /\ params = Undef
  /\ bodyParsed = FALSE
  /\ storeCalls = <<>>
  /\ result = None
  /\ thrown = None
  /\ response = None

\* The caller sends request req.
SendAny(req) ==
  /\ pc = "AwaitingRequest"
  /\ request = <<>>
  /\ request' = req
  /\ UNCHANGED <<entry, invocations, env, pc, exit, kind, rawTool, tool, params,
                 bodyParsed, storeCalls, result, thrown, response>>

NextAny ==
  \/ \E req \in AnyRequests : SendAny(req)
  \/ \E c \in Carriers : \E n \in RawNames : SendNamed(c, n)
  \/ \E c \in Carriers : \E op \in Implemented : \E p \in ParamChoices :
       SendParams(c, op, p)
  \/ Invoke
  \/ StoreReturns
  \/ \E err \in StoreFailures : StoreThrows(err)

SpecAny == InitAny /\ [][NextAny]_vars

(***************************************************************************)
(* Several invocations in one execution environment.  The locals of        *)
(* `handler` (event, context, config, client, tools, tool, params, result) *)
(* exist once per invocation; the module scope holds only constants, and   *)
(* process.env is read, never written.  An invocation runs without         *)
(* interruption up to the await of its record-store call.                  *)
(***************************************************************************)
\* The number of invocations in flight at a time.
MaxParallel == 2
Slots == 1..MaxParallel
ParallelRequests ==
  {<<>>,
   NamedRequest("clientContext", Wire("get-apps"), EmptyObj),
   ("id" :> Str(<<"1">>)) @@ NamedRequest("params", Wire("get-app"), FullParams),
   NamedRequest("tool", Plain("add-records"), FullParams),
   NamedRequest("tool", Plain("get-records"), BadParams),
   NamedRequest("tool", Plain("nonexistent-tool"), FullParams),
   ("payload" :> Null),
   ("payload" :> Null) @@ ("clientContext" :> ClientContext(Wire("get-apps")))}

\* The locals of an invocation with request req that has got as far as h,
\* with tool outcome res.
Locals(req, h, res) ==
  [request |-> req, pc |-> h.pc, exit |-> h.exit, kind |-> h.kind,
   rawTool |-> h.rawTool, tool |-> h.tool, params |-> h.params,
   bodyParsed |-> h.bodyParsed, storeCalls |-> h.storeCalls, result |-> res,
   thrown |-> h.thrown, response |-> h.response]

\* No invocation has been made.
Idle ==
  [request |-> <<>>, pc |-> "AwaitingRequest", exit |-> "none", kind |-> "None",
   rawTool |-> Undef, tool |-> Undef, params |-> Undef, bodyParsed |-> FALSE,
   storeCalls |-> <<>>, result |-> None, thrown |-> None, response |-> None]

\* The locals after the tool method returned res and the handler rendered it.
Returned(which, l, res) ==
  LET f == finishOf(which, EventOf(l.request), ContextOf(l.request), res)
  IN [l EXCEPT !.pc = "Completed", !.exit = f.exit, !.result = res,
               !.thrown = f.thrown, !.response = f.response]

InitParallel ==
  /\ entry \in Entries
  /\ env \in Environments
  /\ invocations = [i \in Slots |-> Idle]
  /\ request = <<>>
  /\ pc = "AwaitingRequest"
  /\ exit = "none"
  /\ kind = "None"
  /\ rawTool = Undef
  /\ tool = Undef
  /\ params = Undef
  /\ bodyParsed = FALSE
  /\ storeCalls = <<>>
  /\ result = None
  /\ thrown = None
  /\ response = None

single ==
  <<request, pc, exit, kind, rawTool, tool, params, bodyParsed, storeCalls, result,
    thrown, response>>

\* Mutant: `event` is a variable of the module scope, assigned by every
\* invocation.
BeginSharing(i, req) ==
  /\ invocations[i].pc \in {"AwaitingRequest", "Completed"}
  /\ invocations' =
       [k \in Slots |->
          IF k = i
          THEN Locals(req, startOf(entry, EventOf(req), ContextOf(req), env), None)
          ELSE [invocations[k] EXCEPT !.request = req]]
  /\ UNCHANGED <<entry, env, single>>

\* The platform invokes the handler in slot i, idle or free again after the
\* invocation before: the handler runs up to its await or to its return.
Begin(i, req) ==
  /\ invocations[i].pc \in {"AwaitingRequest", "Completed"}
  /\ invocations' =
       [invocations EXCEPT ![i] =
          Locals(req, startOf(entry, EventOf(req), ContextOf(req), env), None)]
  /\ UNCHANGED <<entry, env, single>>

\* The record-store call of invocation i resolves.
Resolve(i) ==
  /\ invocations[i].pc = "Calling"
  /\ LET op == invocations[i].storeCalls[1].op
     IN invocations' =
          [invocations EXCEPT ![i] =
             Returned(entry, @, successOf(op, StoreResponse(op)))]
  /\ UNCHANGED <<entry, env, single>>

\* The record-store call of invocation i rejects.
Reject(i, err) ==
  /\ invocations[i].pc = "Calling"
  /\ LET op == invocations[i].storeCalls[1].op
     IN invocations' =
          [invocations EXCEPT ![i] = Returned(entry, @, failureOf(op, err))]
  /\ UNCHANGED <<entry, env, single>>

NextParallel ==
  \/ \E i \in Slots : \E req \in ParallelRequests : Begin(i, req)
  \/ \E i \in Slots : Resolve(i)
  \/ \E i \in Slots : \E err \in StoreFailures : Reject(i, err)

SpecParallel == InitParallel /\ [][NextParallel]_vars

\* The record-store call of every invocation eventually returns or fails.
SpecParallelFair ==
  /\ SpecParallel
  /\ \A i \in Slots : WF_vars(Resolve(i) \/ \E err \in StoreFailures : Reject(i, err))

(***************************************************************************)
(* Properties.  The vocabulary of the specification: the classification    *)
(* predicates of its section 4.1, evaluated on the request, and the three  *)
(* response shapes of its section 4.5.                                     *)
(***************************************************************************)
Carries(o, k) == o.t = "object" /\ k \in DOMAIN o.v
BeginsWithPrefix(x) == x.t = "string" /\ IsPrefix(<<Target, Delim>>, x.v)

\* The custom sub-object of the invocation context.
CustomOf(req) ==
  IF "clientContext" \in DOMAIN req THEN Get(req["clientContext"], "custom") ELSE Undef

Holds(k, req) ==
  LET ev == EventOf(req) IN
  CASE k = "GatewayManaged" -> Carries(CustomOf(req), "bedrockAgentCoreToolName")
    [] k = "EmptyPayload" -> DOMAIN ev.v = {}
    [] k = "JsonRpcCall" ->
         Get(ev, "method") = Str(<<"tools/call">>) /\ Carries(ev, "params")
    [] k = "LegacyOperationId" ->
         Carries(ev, "operationId") \/ Carries(Get(ev, "context"), "input")
    [] k = "LegacyPrefixedName:name" -> BeginsWithPrefix(Get(ev, "name"))
    [] k = "LegacyPrefixedName:toolName" -> BeginsWithPrefix(Get(ev, "toolName"))
    [] k = "LegacyPrefixedName:tool_name" -> BeginsWithPrefix(Get(ev, "tool_name"))
    [] k = "QueueMessage" -> Get(ev, "Records").t = "array"
    [] k = "HttpProxy" -> Carries(ev, "httpMethod") \/ Carries(ev, "requestContext")
    [] k = "EventBus" -> Get(ev, "source") = Str(<<"aws.events">>)

Priority ==
  <<"GatewayManaged", "EmptyPayload", "JsonRpcCall", "LegacyOperationId",
    "LegacyPrefixedName:name", "LegacyPrefixedName:toolName",
    "LegacyPrefixedName:tool_name", "QueueMessage", "HttpProxy", "EventBus">>

\* The first kind, in priority order, whose predicate holds; DirectInvoke if none.
FirstHolding(req) ==
  IF \E i \in 1..Len(Priority) : Holds(Priority[i], req)
  THEN Priority[CHOOSE i \in 1..Len(Priority) :
                  /\ Holds(Priority[i], req)
                  /\ \A j \in 1..(i - 1) : ~Holds(Priority[j], req)]
  ELSE "DirectInvoke"

LegacyPrefixedKinds ==
  {"LegacyPrefixedName:name", "LegacyPrefixedName:toolName",
   "LegacyPrefixedName:tool_name"}
HttpKinds == {"GatewayManaged", "LegacyOperationId", "HttpProxy"} \cup LegacyPrefixedKinds
BareKinds == {"QueueMessage", "EventBus", "DirectInvoke", "EmptyPayload"}
Kinds == HttpKinds \cup BareKinds \cup {"JsonRpcCall"}

ConfigPresent == env.KINTONE_BASE_URL /\ env.KINTONE_USERNAME /\ env.KINTONE_PASSWORD

\* The handler got as far as assigning `tool` and `params` in a branch.
Extracted_ ==
  /\ pc # "AwaitingRequest"
  /\ kind # "None"
  /\ exit # "invalidBody"
  /\ exit = "catch" => thrown.name = "ZodError"

\* The JSON value carried by a text field, undefined when there is none.
Embedded(x) == IF IsJSON(x) THEN JSONparse(x) ELSE Undef
FirstBody(ev) ==
  IF Get(ev, "Records").t = "array" /\ Len(Get(ev, "Records").v) > 0
  THEN Get(Get(ev, "Records").v[1], "body") ELSE Undef

\* The field that carries the tool id of a kind, and the fields that may
\* carry its parameters.
ToolField(k, req) ==
  LET ev == EventOf(req) IN
  CASE k = "GatewayManaged" -> Get(CustomOf(req), "bedrockAgentCoreToolName")
    [] k = "EmptyPayload" -> Str(<<"get-apps">>)
    [] k = "JsonRpcCall" -> Get(Get(ev, "params"), "name")
    [] k = "LegacyOperationId" -> Get(ev, "operationId")
    [] k = "LegacyPrefixedName:name" -> Get(ev, "name")
    [] k = "LegacyPrefixedName:toolName" -> Get(ev, "toolName")
    [] k = "LegacyPrefixedName:tool_name" -> Get(ev, "tool_name")
    [] k = "QueueMessage" -> Get(Embedded(FirstBody(ev)), "tool")
    [] k = "HttpProxy" -> Get(Embedded(Get(ev, "body")), "tool")
    [] k = "EventBus" -> Get(Get(ev, "detail"), "tool")
    [] k = "DirectInvoke" -> Get(ev, "tool")

ParamFields(k, req) ==
  LET ev == EventOf(req) IN
  CASE k = "GatewayManaged" -> {ev}
    [] k = "EmptyPayload" -> {EmptyObj}
    [] k = "JsonRpcCall" -> {Get(Get(ev, "params"), "arguments"), EmptyObj}
    [] k = "LegacyOperationId" -> {Get(Get(ev, "context"), "input"), EmptyObj}
    [] k = "LegacyPrefixedName:name" -> {Get(ev, "arguments"), EmptyObj}
    [] k \in {"LegacyPrefixedName:toolName", "LegacyPrefixedName:tool_name"} ->
         {Get(ev, "arguments"), Get(ev, "params"), EmptyObj}
    [] k = "QueueMessage" -> {Get(Embedded(FirstBody(ev)), "params")}
    [] k = "HttpProxy" -> {Get(Embedded(Get(ev, "body")), "params")}
    [] k = "EventBus" -> {Get(Get(ev, "detail"), "params"), EmptyObj}
    [] k = "DirectInvoke" -> {Get(ev, "params")}

IsSuffix(a, b) == Len(a) <= Len(b) /\ SubSeq(b, Len(b) - Len(a) + 1, Len(b)) = a

\* a is b with some of its words left out.
RECURSIVE IsSubsequence(_, _)
IsSubsequence(a, b) ==
  IF a = <<>> THEN TRUE
  ELSE IF b = <<>> THEN FALSE
  ELSE IF Head(a) = Head(b) THEN IsSubsequence(Tail(a), Tail(b))
  ELSE IsSubsequence(a, Tail(b))

\* raw is what is left of the field after prefixes were removed from it; an
\* operationId stands for the tool as a whole.
ReadFrom(raw, field, k) ==
  IF field.t # "string" THEN raw = Undef
  ELSE /\ raw.t = "string"
       /\ k # "LegacyOperationId" => IsSubsequence(raw.v, field.v)

IsJsonRpc(r) == "jsonrpc" \in DOMAIN r
IsJsonRpcError(r) == IsJsonRpc(r) /\ "error" \in DOMAIN r /\ "result" \notin DOMAIN r
IsJsonRpcResult(r) == IsJsonRpc(r) /\ "result" \in DOMAIN r /\ "error" \notin DOMAIN r
IsHttp(r) == DOMAIN r = {"statusCode", "headers", "body"}
IsBare(r) == "success" \in DOMAIN r

\* C2: whenever the custom object of the invocation context carries a tool
\* name, whatever else the payload contains, the tool id is taken from the
\* context, the parameters are the whole payload, and the response has the
\* HTTP shape {statusCode, headers, body}.
C2_GatewayManagedWins ==
  (pc = "Completed" /\ ConfigPresent /\ Holds("GatewayManaged", request)) =>
     /\ kind = "GatewayManaged"
     /\ ReadFrom(rawTool, ToolField("GatewayManaged", request), "GatewayManaged")
     /\ params = event
     /\ IsHttp(response)

\* C3 as stated: a request on which both the LegacyPrefixedName predicate and
\* the HttpProxy predicate hold is processed as LegacyPrefixedName, its tool
\* id read from the name field, its parameters from arguments, and the HTTP
\* body is not parsed.
HoldsLegacyPrefixed(req) == \E k \in LegacyPrefixedKinds : Holds(k, req)

Successful == exit = "result" /\ result.success

\* C4: a request with valid parameters whose record-store call succeeds is
\* answered in the shape of its kind: JsonRpcCall as a JSON-RPC result with
\* isError false and one text content; GatewayManaged, LegacyOperationId,
\* LegacyPrefixedName (all three sub-forms) and HttpProxy as
\* {statusCode: 200, headers, body}; QueueMessage, EventBus, DirectInvoke and
\* EmptyPayload as the bare outcome.
C4_SuccessRenderedPerKind ==
  (pc = "Completed" /\ Successful) =>
     /\ kind = "JsonRpcCall" =>
          /\ IsJsonRpcResult(response)
          /\ response.jsonrpc = "2.0"
          /\ response.result.isError = FALSE
          /\ response.result.content = <<[type |-> "text", text |-> JSONstringify(result)]>>
     /\ kind \in HttpKinds =>
          /\ IsHttp(response)
          /\ response.statusCode = 200
          /\ response.body = JSONstringify(result)
     /\ kind \in BareKinds => response = result

\* The outcome classes of a completed invocation.
Outcome ==
  CASE exit = "result" -> IF result.success THEN "success" ELSE "toolFailure"
    [] exit = "missingTool" -> "missingTool"
    [] exit = "unsupportedTool" -> "unknownTool"
    [] exit = "catch" -> "internalFailure"
    [] OTHER -> "none"

\* The shape and status of a response.
ShapeAndStatus(r) ==
  CASE IsJsonRpcResult(r) -> <<"jsonrpc", "result", r.result.isError>>
    [] IsJsonRpcError(r) -> <<"jsonrpc", "error", r.error.code>>
    [] IsHttp(r) -> <<"http", "status", r.statusCode>>
    [] OTHER -> <<"bare", "outcome", r.success>>

\* The requests that carry one more field than req.
OneMoreField(req) ==
  UNION {{(f :> v) @@ req : v \in FieldDom(f)} : f \in Fields \ DOMAIN req}

\* The response to request req when it is classified as the current request
\* was and has the outcome the current request had (for a tool outcome: the
\* same record-store call answered in the same way); None otherwise.
ResponseToSame(req) ==
  LET ev == EventOf(req)
      ctx == ContextOf(req)
      h == handlerStart(ev, ctx, env)
  IN IF h.kind # kind THEN None
     ELSE IF exit = "result"
     THEN IF h.pc = "Calling" /\ h.tool = tool /\ h.params = params
          THEN renderResult(ev, ctx, result) ELSE None
     ELSE IF h.pc = "Completed" /\ h.exit = exit THEN h.response
     ELSE None

\* C5: rendering is a function of the envelope kind and the outcome only.
\* Whenever an invocation has completed, a request with one more field that
\* is classified to the same kind and has the same outcome is answered in
\* the same shape and with the same status.
C5_RenderingByKindAndOutcome ==
  (pc = "Completed" /\ kind \in Kinds /\ Outcome # "none") =>
     \A req \in OneMoreField(request) :
        ResponseToSame(req) # None =>
           ShapeAndStatus(ResponseToSame(req)) = ShapeAndStatus(response)

\* The parameters of the current request fail the schema of its tool.
SchemaFailure ==
  /\ Extracted_
  /\ tool.t = "string" /\ Len(tool.v) = 1
  /\ tool.v[1] \in {"get-app", "get-form-fields", "get-records", "add-records"}
  /\ ~schemaOf(tool.v[1], params).ok

\* C6: a parameter-schema failure for get-app, get-form-fields, get-records
\* or add-records is answered as a client error: statusCode 400 for the
\* HTTP-shaped kinds, JSON-RPC code -32602 for JsonRpcCall, and never
\* statusCode 500 or code -32603.
C6_SchemaFailureIsClientError ==
  (pc = "Completed" /\ SchemaFailure) =>
     /\ kind \in HttpKinds => IsHttp(response) /\ response.statusCode = 400
     /\ kind = "JsonRpcCall" => IsJsonRpcError(response) /\ response.error.code = -32602
     /\ IsHttp(response) => response.statusCode # 500
     /\ IsJsonRpcError(response) => response.error.code # -32603

\* The canonical tool id of the current request has no handler.
NoHandler ==
  /\ Extracted_
  /\ tool.t = "string" /\ Len(tool.v) > 0
  /\ ~(Len(tool.v) = 1 /\ tool.v[1] \in Implemented)

NotFoundFailure == [success |-> FALSE, error |-> <<"unsupported tool: ">> \o tool.v]

\* C7: for every kind, a canonical tool id without a handler yields the
\* failure {success: false, error: "unsupported tool: <id>"} rendered for
\* that kind (JSON-RPC error for JsonRpcCall, HTTP shape for the HTTP-shaped
\* kinds, bare object for the others), no record-store call is made and no
\* exception reaches the outer catch block.
C7_UnknownToolNotFound ==
  (pc = "Completed" /\ NoHandler) =>
     /\ storeCalls = <<>>
     /\ thrown = None
     /\ kind = "JsonRpcCall" =>
          IsJsonRpcError(response) /\ response.error.message = NotFoundFailure.error
     /\ kind \in HttpKinds =>
          IsHttp(response) /\ response.body = JSONstringify(NotFoundFailure)
     /\ kind \in BareKinds => response = NotFoundFailure

\* No tool id could be extracted from the current request.
NoToolId == Extracted_ /\ ~Truthy(tool)

\* C8: for every kind, a request from which no tool id can be extracted ends
\* in a "tool not specified" failure rendered for that kind; it is not a
\* success, not an empty result, and no record-store operation is invoked.
C8_MissingToolExplicitFailure ==
  (pc # "AwaitingRequest" /\ NoToolId) =>
     /\ pc = "Completed"
     /\ storeCalls = <<>>
     /\ kind = "JsonRpcCall" =>
          IsJsonRpcError(response) /\ response.error.message = ToolNotSpecified
     /\ kind \in HttpKinds =>
          /\ IsHttp(response)
          /\ IsJSON(response.body)
          /\ JSONparse(response.body).success = FALSE
          /\ JSONparse(response.body).error = ToolNotSpecified
     /\ kind \in BareKinds =>
          /\ IsBare(response)
          /\ response.success = FALSE
          /\ response.error = ToolNotSpecified

\* A protocol-level failure of a JsonRpcCall request: the invocation has
\* completed without a tool outcome.
JsonRpcFailure ==
  /\ pc = "Completed"
  /\ FirstHolding(request) = "JsonRpcCall"
  /\ exit # "result"

\* C9: for a JsonRpcCall request every protocol-level failure is a JSON-RPC
\* error object, with code -32602 exactly when no tool id was extracted,
\* -32601 exactly when the canonical tool id has no handler, -32603 exactly
\* when an exception was caught by the outer catch block, and no other code.
C9_JsonRpcErrorCodes ==
  JsonRpcFailure =>
     /\ IsJsonRpcError(response)
     /\ response.jsonrpc = "2.0"
     /\ response.error.code \in {-32602, -32601, -32603}
     /\ response.error.code = -32602 <=> NoToolId
     /\ response.error.code = -32601 <=> NoHandler
     /\ response.error.code = -32603 <=> thrown # None

\* C9 witness: a JsonRpcCall request whose arguments failed the schema of
\* its tool was answered with code -32603.
C9_Witness ==
  /\ JsonRpcFailure
  /\ ConfigPresent
  /\ thrown # None
  /\ thrown.name = "ZodError"
  /\ response.error.code = -32603

\* C10: for GatewayManaged, LegacyOperationId, LegacyPrefixedName (three
\* sub-forms) and HttpProxy every dispatch-level failure is rendered as
\* {statusCode, headers, body}, with statusCode 400 when the tool id is
\* missing or unknown, 500 when an exception was caught by the outer catch
\* block, and the body the JSON text of the error object.
C10_HttpKindsFailureShape ==
  (pc = "Completed" /\ kind \in HttpKinds
     /\ exit \in {"missingTool", "unsupportedTool", "catch"}) =>
     /\ IsHttp(response)
     /\ response.statusCode = IF exit = "catch" THEN 500 ELSE 400
     /\ IsJSON(response.body)
     /\ JSONparse(response.body).success = FALSE

\* A tool method ran and returned success: false.
ToolFailed == pc = "Completed" /\ exit = "result" /\ ~result.success

\* C11: when a tool handler ran and returned success: false, the response
\* stays on the success path: for JsonRpcCall a result object with isError
\* true and never a JSON-RPC error object, for the HTTP-shaped kinds
\* statusCode 200 with the failure outcome as body; and in every JSON-RPC
\* result isError is true exactly when the outcome's success is false.
C11_ToolFailureOnSuccessPath ==
  /\ ToolFailed =>
       /\ kind = "JsonRpcCall" =>
            /\ IsJsonRpcResult(response)
            /\ response.result.isError = TRUE
       /\ kind \in HttpKinds =>
            /\ IsHttp(response)
            /\ response.statusCode = 200
            /\ response.body = JSONstringify(result)
  /\ (pc = "Completed" /\ exit = "result" /\ IsJsonRpcResult(response)) =>
       (response.result.isError <=> ~result.success)

\* The invocation context carries a gateway tool name.
ContextNamesTool(req) ==
  /\ "clientContext" \in DOMAIN req
  /\ \/ Carries(Get(req["clientContext"], "custom"), "bedrockAgentCoreToolName")
     \/ Carries(Get(req["clientContext"], "Custom"), "bedrockAgentCoreToolName")

\* C12: a payload with zero own keys that arrives without a gateway tool
\* name on the invocation context is not a validation error: it is
\* dispatched as get-apps with empty parameters, calls the list-apps
\* operation of the record store, and the outcome is returned bare.
C12_EmptyPayloadListsApps ==
  (pc # "AwaitingRequest" /\ ConfigPresent
     /\ DOMAIN event.v = {} /\ ~ContextNamesTool(request)) =>
     /\ kind = "EmptyPayload"
     /\ tool = Str(<<"get-apps">>)
     /\ params = EmptyObj
     /\ thrown = None
     /\ storeCalls = <<[op |-> "app.getApps", args |-> EmptyObj]>>
     /\ pc = "Completed" =>
          /\ exit = "result"
          /\ IsBare(response)
          /\ response = result

\* C12 witness: the empty payload, sent with a context whose custom object
\* names no tool, was answered with the bare list of apps.
C12_Witness ==
  /\ pc = "Completed"
  /\ DOMAIN event.v = {}
  /\ "clientContext" \in DOMAIN request
  /\ ~ContextNamesTool(request)
  /\ kind = "EmptyPayload"
  /\ result.success
  /\ response = result

\* C13: when the base URL or the username/password pair is missing from the
\* configuration, every invocation fails before classification and
\* dispatch: nothing is classified, no record-store operation is invoked,
\* and the response is the internal-failure rendering of the request's
\* envelope: statusCode 500 for the HTTP-shaped kinds, JSON-RPC code -32603
\* for JsonRpcCall, a bare error object for the others.
C13_ConfigFailureIsInternal ==
  (pc # "AwaitingRequest" /\ ~ConfigPresent) =>
     /\ pc = "Completed"
     /\ kind = "None"
     /\ rawTool = Undef /\ tool = Undef
     /\ storeCalls = <<>>
     /\ thrown # None
     /\ FirstHolding(request) = "JsonRpcCall" =>
          IsJsonRpcError(response) /\ response.error.code = -32603
     /\ FirstHolding(request) \in HttpKinds =>
          /\ IsHttp(response)
          /\ response.statusCode = 500
          /\ JSONparse(response.body).success = FALSE
     /\ FirstHolding(request) \in BareKinds =>
          /\ IsBare(response)
          /\ response.success = FALSE
          /\ response.error = thrown.message

\* A registered tool was dispatched with parameters that pass its schema.
DispatchedValid ==
  /\ Extracted_
  /\ thrown = None
  /\ tool.t = "string" /\ Len(tool.v) = 1 /\ tool.v[1] \in Implemented
  /\ schemaOf(tool.v[1], params).ok

\* The response carries the outcome res of a tool method.
Answers(r, res) ==
  \/ r = res
  \/ IsHttp(r) /\ r.body = JSONstringify(res)
  \/ IsJsonRpcResult(r) /\ r.result.content[1].text = JSONstringify(res)

\* C14: no retry.  In every invocation the record store is called at most
\* once, and exactly once when a registered tool is dispatched with valid
\* parameters; a call that was made is never followed by another; and when
\* the call fails the handler completes in that step with that failure as
\* its answer.
C14_NoRetry ==
  [][ /\ Len(storeCalls') <= 1
      /\ DispatchedValid' => Len(storeCalls') = 1
      /\ Len(storeCalls) = 1 => storeCalls' = storeCalls
      /\ (pc = "Calling" /\ result' # None /\ ~result'.success) =>
           /\ pc' = "Completed"
           /\ exit' = "result"
           /\ Answers(response', result') ]_vars

\* C14 witness: the one record-store call of an invocation failed and the
\* invocation completed with the failure.
C14_Witness ==
  /\ pc = "Completed"
  /\ exit = "result"
  /\ ~result.success
  /\ Len(storeCalls) = 1

HasDelimiter(w) == \E i \in 1..Len(w) : w[i] = Delim
FirstDelimiter(w) == CHOOSE i \in 1..Len(w) : w[i] = Delim /\ \A j \in 1..(i - 1) : w[j] # Delim

\* What follows the delimiter; everything when there is none.
AfterDelimiter(w) ==
  IF HasDelimiter(w) THEN SubSeq(w, FirstDelimiter(w) + 1, Len(w)) ELSE w

\* w without the family prefix it begins with, if it begins with it.
WithoutFamily(w) == IF Len(w) > 0 /\ w[1] = Family THEN Tail(w) ELSE w

\* w with every occurrence of the family literal left out.
IgnoringFamily(w) == SelectSeq(w, LAMBDA x : x # Family)

\* The raw tool name of the current request, as its kind carries it.
RawName == ToolField(kind, request)

\* The current request was classified and carries a raw tool name.
Named ==
  /\ pc # "AwaitingRequest"
  /\ ConfigPresent
  /\ Extracted_
  /\ RawName.t = "string"
  /\ Len(RawName.v) > 0
  /\ tool.t = "string"

\* C16: delimiter stripping is one algorithm for every kind that carries a
\* raw tool name: when the raw name contains the delimiter, the resolver
\* keeps what follows the delimiter, whatever stands in front of it (the
\* family prefix aside, which is removed afterwards).
C16_DelimiterStrippingUniform ==
  (Named /\ HasDelimiter(RawName.v)) =>
     IgnoringFamily(tool.v) = IgnoringFamily(AfterDelimiter(RawName.v))

\* C17: the family literal is removed only from the start of what remains
\* after delimiter removal, and only once: the canonical id is the raw name,
\* or what follows its delimiter, without one leading family literal.
C17_FamilyPrefixOnlyAtStartOnce ==
  (Named /\ ~(kind = "LegacyOperationId" /\ toolMapping(RawName) # Undef)) =>
     \/ tool.v = WithoutFamily(RawName.v)
     \/ tool.v = WithoutFamily(AfterDelimiter(RawName.v))

\* C18: resolution is the identity on canonical ids: a request of any kind
\* whose raw tool name is one of the seven canonical ids is resolved to that
\* id.
C18_IdentityOnCanonicalIds ==
  (Named /\ Len(RawName.v) = 1 /\ RawName.v[1] \in CanonicalIds) =>
     /\ rawTool = RawName
     /\ tool = RawName
     /\ extractToolName(RawName) = RawName
     /\ guideToolName(RawName) = RawName

\* C18 witness: requests naming update-records through the invocation
\* context and get-form-fields through operationId were resolved to these
\* ids.
C18_Witness ==
  /\ pc = "Completed"
  /\ \/ kind = "GatewayManaged" /\ RawName = Plain("update-records")
     \/ kind = "LegacyOperationId" /\ RawName = Plain("get-form-fields")
  /\ tool = RawName

\* C19: resolution only strips: the canonical id is a suffix of the raw tool
\* name, and no raw name is translated to a different tool name.
C19_ResolutionOnlyStrips ==
  Named => IsSuffix(tool.v, RawName.v)

\* The records field of the parameters is absent, not a sequence, or an
\* empty sequence.
WithoutRecords(p) ==
  \/ ~Carries(p, "records")
  \/ Get(p, "records").t # "array"
  \/ Get(p, "records").v = <<>>

\* C20: add-records requires a non-empty records sequence: a request for
\* add-records whose records field is absent, not a sequence, or an empty
\* sequence fails validation, and the add-records operation of the record
\* store is not called.
C20_AddRecordsNeedsRecords ==
  (pc # "AwaitingRequest" /\ Named /\ tool = Plain("add-records")
     /\ WithoutRecords(params)) =>
     /\ pc = "Completed"
     /\ exit = "catch"
     /\ thrown.name = "ZodError"
     /\ storeCalls = <<>>

(***************************************************************************)
(* Queue deliveries of several records                                     *)
(***************************************************************************)
\* Records that may follow the first one of a delivery.
RecordRests ==
  {<<>>, <<EmptyObj>>, <<Obj("body" :> Garbage)>>,
   <<QueueRecord(Call(Plain("get-apps")))>>,
   <<QueueRecord(CallWith(Plain("add-records"), FullParams))>>,
   <<QueueRecord(CallWith(Plain("get-app"), BadParams)),
     QueueRecord(Call(Plain("nonexistent-tool")))>>}

\* The request req with other records after its first one.
WithRest(req, rest) ==
  [req EXCEPT !["Records"] = Arr(<<req["Records"].v[1]>> \o rest)]

\* The current request was classified as a queue delivery of at least one record.
QueueDelivery ==
  /\ pc # "AwaitingRequest"
  /\ kind = "QueueMessage"
  /\ Len(request["Records"].v) > 0

\* C21: for a QueueMessage payload only the first element of Records decides
\* the request: the tool id and the parameters are those of the JSON text in
\* Records[0].body, at most one record-store call is made however many
\* records are delivered, and a payload that differs only in the records
\* after the first is classified, dispatched and answered in the same way.
C21_OnlyFirstRecordDecides ==
  QueueDelivery =>
     /\ rawTool = Get(Embedded(FirstBody(event)), "tool")
     /\ params = Get(Embedded(FirstBody(event)), "params")
     /\ Len(storeCalls) <= 1
     /\ \A rest \in RecordRests :
          LET req == WithRest(request, rest)
              h == handlerStart(EventOf(req), ContextOf(req), env)
          IN /\ h.kind = kind
             /\ h.rawTool = rawTool
             /\ h.tool = tool
             /\ h.params = params
             /\ h.storeCalls = storeCalls
             /\ IF exit = "result"
                THEN /\ h.pc = "Calling"
                     /\ renderResult(EventOf(req), ContextOf(req), result) = response
                ELSE /\ h.pc = pc
                     /\ h.exit = exit
                     /\ h.response = response

\* C21 witness: a delivery of two records, get-apps first and get-app second,
\* completed with the outcome of one call, list-apps.
C21_Witness ==
  /\ pc = "Completed"
  /\ kind = "QueueMessage"
  /\ Len(request["Records"].v) = 2
  /\ exit = "result"
  /\ tool = Plain("get-apps")
  /\ storeCalls = <<[op |-> "app.getApps", args |-> EmptyObj]>>

(***************************************************************************)
(* Invocations in parallel and in sequence                                 *)
(***************************************************************************)
\* The locals of an invocation that runs alone with request req under
\* environment e, and whose tool method, if one is called, has returned res
\* (None while the record-store call is pending).
Alone(which, req, e, res) ==
  LET h == startOf(which, EventOf(req), ContextOf(req), e)
  IN IF h.pc = "Calling" /\ res # None
     THEN Returned(which, Locals(req, h, None), res)
     ELSE Locals(req, h, None)

C23_EachInvocationCompletesOnce ==
  /\ \A i \in Slots :
       (invocations[i].pc = "Calling") ~> (invocations[i].pc = "Completed")
  /\ [](\A i \in Slots :
          /\ invocations[i].pc \in {"AwaitingRequest", "Calling", "Completed"}
          /\ invocations[i].pc = "Completed" <=> invocations[i].response # None)
  /\ [][ \A i \in Slots :
           invocations'[i] # invocations[i] =>
              \/ /\ invocations[i].pc = "Calling"
                 /\ invocations'[i].pc = "Completed"
                 /\ invocations'[i].request = invocations[i].request
              \/ /\ invocations[i].pc \in {"AwaitingRequest", "Completed"}
                 /\ invocations'[i] =
                      Alone(entry, invocations'[i].request, env, None) ]_vars

(***************************************************************************)
(* Properties of either entry point                                        *)
(***************************************************************************)
\* C24: every JSON-RPC-shaped response, result or error, carries the id of
\* the request it answers, unchanged, whenever the request has an id; the id
\* 1 stands in only for a request without an id.
C24_JsonRpcIdEchoed ==
  (pc = "Completed" /\ IsJsonRpc(response)) =>
     response.id = IF Carries(event, "id") THEN Get(event, "id") ELSE Num(1)

\* The completed invocation answered with a failure.
FailureAnswered ==
  /\ pc = "Completed"
  /\ response # None
  /\ \/ exit \in {"missingTool", "unsupportedTool", "invalidBody", "catch"}
     \/ exit = "result" /\ ~result.success

\* The failure object a response carries: the JSON-RPC error member, the
\* outcome in the text content of a JSON-RPC result, the parsed body of an
\* HTTP response, or the bare outcome itself.
FailureOf(r) ==
  IF IsJsonRpcError(r) THEN r.error
  ELSE IF IsJsonRpcResult(r) THEN JSONparse(r.result.content[1].text)
  ELSE IF IsHttp(r) THEN JSONparse(r.body)
  ELSE r

MessageOf(r) ==
  IF IsJsonRpcError(r) THEN FailureOf(r).message ELSE FailureOf(r).error

HasTimestamp(r) ==
  IF IsJsonRpcError(r)
  THEN "data" \in DOMAIN r.error /\ "timestamp" \in DOMAIN r.error.data
  ELSE "timestamp" \in DOMAIN FailureOf(r)

\* C25: every failure response, for every envelope kind and from either
\* handler, includes a message that is not empty; and every response to an
\* exception caught by the outer catch block, the configuration failure
\* included, also includes a generation timestamp, in the JSON-RPC rendering
\* as well as in the HTTP and the bare rendering.
C25_FailuresCarryMessageAndTimestamp ==
  FailureAnswered =>
     /\ MessageOf(response) # <<>>
     /\ exit = "catch" => HasTimestamp(response)

\* C26: the two entry points agree on the canonical tool id.  For every raw
\* tool name in a GatewayManaged, JsonRpcCall or DirectInvoke request, names
\* with no, one or several delimiters included, the guide's handler resolves
\* the id that the handler of index.ts resolved, and so makes the same
\* record-store call, or both report the tool unsupported.
C26_EntryPointsAgreeOnToolId ==
  (Named /\ kind \in {"GatewayManaged", "JsonRpcCall", "DirectInvoke"}) =>
     LET g == guideHandlerStart(event, context, env)
     IN /\ g.tool = tool
        /\ g.storeCalls = storeCalls
        /\ (g.exit = "unsupportedTool") <=> (exit = "unsupportedTool")

\* The tools whose parameters a schema validates before the call.
Validating == {"get-records", "get-app", "add-records", "get-form-fields"}

\* The argument of a record-store call has the types the tool's schema
\* declares, and its values are those of the request's parameters.
WellTyped(name, c, p) ==
  CASE name = "get-records" ->
         /\ c.op = "record.getRecords"
         /\ IsType(Get(c.args, "app"), "string")
         /\ Get(c.args, "app") = Get(p, "app")
         /\ IsOptional(Get(c.args, "query"), "string")
         /\ Get(c.args, "query") = Get(p, "query")
         /\ Get(c.args, "fields") = Get(p, "fields")
         /\ \/ Get(p, "fields") = Undef
            \/ IsArrayOf(Get(p, "fields"), "string")
         /\ IsType(Get(c.args, "totalCount"), "boolean")
    [] name = "get-app" ->
         /\ c.op = "app.getApp"
         /\ IsType(Get(c.args, "id"), "string")
         /\ Get(c.args, "id") = Get(p, "id")
    [] name = "add-records" ->
         /\ c.op = "record.addRecords"
         /\ IsType(Get(c.args, "app"), "string")
         /\ Get(c.args, "app") = Get(p, "app")
         /\ IsArrayOf(Get(c.args, "records"), "object")
         /\ Get(c.args, "records") = Get(p, "records")
    [] name = "get-form-fields" ->
         /\ c.op = "app.getFormFields"
         /\ IsType(Get(c.args, "app"), "string")
         /\ Get(c.args, "app") = Get(p, "id")

\* C27: for get-records, get-app, add-records and get-form-fields a
\* record-store operation is invoked only when the parameters passed the
\* tool's schema, and with the validated values; an invocation whose
\* parameters fail the schema invokes no record-store operation, at either
\* entry point.
C27_ValidationPrecedesCall ==
  (tool.t = "string" /\ Len(tool.v) = 1 /\ tool.v[1] \in Validating) =>
     /\ storeCalls # <<>> =>
          /\ schemaOf(tool.v[1], params).ok
          /\ Len(storeCalls) = 1
          /\ WellTyped(tool.v[1], storeCalls[1], params)
     /\ ~schemaOf(tool.v[1], params).ok => storeCalls = <<>>

\* A validated call was made, and an invocation failed validation.
C27_Witness ==
  /\ entry = "guide"
  /\ pc = "Completed"
  /\ tool = Str(<<"get-records">>)
  /\ storeCalls # <<>>
  /\ Get(params, "query") # Undef

C27_WitnessRejected ==
  /\ pc = "Completed"
  /\ tool = Str(<<"add-records">>)
  /\ thrown # None /\ thrown.name = "ZodError"
  /\ storeCalls = <<>>

\* The body of an HTTP request cannot be used as a request object: it is
\* text that is not JSON, or JSON that is not an object.
UnusableBody ==
  /\ Truthy(Get(event, "body"))
  /\ \/ ~IsJSON(Get(event, "body"))
     \/ JSONparse(Get(event, "body")).t # "object"

\* C28: with valid configuration an HttpProxy request whose body is not
\* valid JSON, or is JSON that is not an object (null), is answered with
\* statusCode 400 and a failure body, never 500, and without any
\* record-store operation; an absent body is answered with the 400 "tool not
\* specified" response.
C28_UnusableHttpBodyIsClientError ==
  (pc = "Completed" /\ ConfigPresent /\ kind = "HttpProxy") =>
     /\ UnusableBody =>
          /\ response # None
          /\ IsHttp(response)
          /\ response.statusCode = 400
          /\ ~JSONparse(response.body).success
          /\ storeCalls = <<>>
     /\ ~Truthy(Get(event, "body")) =>
          /\ exit = "missingTool"
          /\ IsHttp(response)
          /\ response.statusCode = 400
          /\ JSONparse(response.body).error = ToolNotSpecified

\* The envelope family of a response.
FamilyOf(r) ==
  IF IsJsonRpc(r) THEN "JSON-RPC" ELSE IF IsHttp(r) THEN "HTTP" ELSE "bare"

\* C29: the envelope family of the response is fixed by the request alone:
\* the response of a completed invocation belongs to the family of every
\* response the handler returns for the same payload and context under any
\* other configuration, before or after the record-store call.
C29_EnvelopeFixedByRequest ==
  (pc = "Completed" /\ response # None) =>
     \A e \in Environments :
        LET h == startOf(entry, event, context, e)
        IN (h.pc = "Completed" /\ h.response # None) =>
              FamilyOf(h.response) = FamilyOf(response)

\* C30: no failure escapes the handler: whatever the payload (null, a value
\* that is not an object, an object with wrongly typed fields) and whatever
\* the invocation context, an invocation of either handler that has ended
\* has returned a response value; it has not ended with an exception raised
\* before the try block or inside the catch block.
C30_NoFailureEscapes ==
  pc = "Completed" => (exit # "rejected" /\ response # None)

====
